---- MODULE Spec2Model ----
(***************************************************************************)
(* Model of the Swap Type plugin (src/main.js): the module-level state of  *)
(* plugin(), the refreshData cycle with its reentrancy guard, the common   *)
(* folder / tag computation, the two swap handlers and the host (Eagle)    *)
(* they talk to.  JavaScript strings are sequences of UTF-16 code units;   *)
(* item and folder identifiers are naturals whose string form is their     *)
(* decimal numeral, as Array.prototype.sort's default comparator sees them.*)
(***************************************************************************)
EXTENDS Integers, Sequences, FiniteSets, TLC

\* ------------------------------------------------------------------ bounds
MaxSwapClicks == 1    \* how many double-clicks the user performs
MaxCycles == 2        \* cap on refresh cycles in flight (the guard keeps it at 1)
MaxSwaps == 1         \* cap on swap handlers in flight
MaxArgLen == 2        \* longest argument sequence of the pure-function harness
MaxArgItems == 3      \* largest selection of the pure-function harness
MaxErrors == 4        \* most error messages in a swap outcome of the harness
MaxProcessed == 2     \* largest processedCount in a swap outcome of the harness

\* ------------------------------------------------------- the host's universe
ItemIds == {1, 2}
FolderIds == {2, 10}
TagX == <<120>>                                  \* "x"
TagY == <<121>>                                  \* "y"
TagLabels == {TagX, TagY}
FolderPrefix == <<70, 111, 108, 100, 101, 114, 32>>   \* "Folder "

\* name of a host folder, and the folder carrying a given name
RECURSIVE ToDigits(_)
\* String(n) for a non-negative integer n
ToDigits(n) == IF n < 10 THEN <<48 + n>> ELSE ToDigits(n \div 10) \o <<48 + (n % 10)>>

RECURSIVE FromDigits(_)
\* the number a decimal numeral denotes
FromDigits(d) ==
  IF Len(d) = 0 THEN 0 ELSE 10 * FromDigits(SubSeq(d, 1, Len(d) - 1)) + (d[Len(d)] - 48)

\* name of a host folder, and the folder carrying a given name (the host creates
\* the folder of a name it has not seen; a name "Folder n" gets the id 10 * n)
HostFolderName(id) ==
  IF id = 2 THEN TagX
  ELSE IF id = 10 THEN TagY
  ELSE FolderPrefix \o ToDigits(id \div 10)
HostFolderNamed(tag) ==
  IF tag = TagX THEN 2
  ELSE IF tag = TagY THEN 10
  ELSE 10 * FromDigits(SubSeq(tag, Len(FolderPrefix) + 1, Len(tag)))

\* ------------------------------------------------------------ JS primitives
RECURSIVE StrLess(_, _)
\* s < t on strings: code unit by code unit, a proper prefix is smaller
StrLess(s, t) ==
  IF Len(t) = 0 THEN FALSE
  ELSE IF Len(s) = 0 THEN TRUE
  ELSE IF Head(s) # Head(t) THEN Head(s) < Head(t)
  ELSE StrLess(Tail(s), Tail(t))

RECURSIVE InsertSorted(_, _)
\* insert the keyed element p into the sorted arr after every element that is
\* not greater (the sort is stable)
InsertSorted(p, arr) ==
  IF Len(arr) = 0 THEN <<p>>
  ELSE IF StrLess(p.key, Head(arr).key) THEN <<p>> \o arr
  ELSE <<Head(arr)>> \o InsertSorted(p, Tail(arr))

RECURSIVE SortKeyed(_)
SortKeyed(arr) ==
  IF Len(arr) = 0 THEN <<>>
  ELSE InsertSorted(arr[Len(arr)], SortKeyed(SubSeq(arr, 1, Len(arr) - 1)))

\* Array.prototype.sort() with the default comparator: order by String(element)
SortBy(arr, Str(_)) ==
  LET keyed == [k \in 1..Len(arr) |-> [key |-> Str(arr[k]), val |-> arr[k]]]
      sorted == SortKeyed(keyed)
  IN  [k \in 1..Len(arr) |-> sorted[k].val]

IdentityStr(s) == s

\* ids.sort() on identifiers
SortIdsUnsorted(ids) == ids
SortIds(ids) == SortBy(ids, ToDigits)

\* [...tags].sort() on tag labels
SortTags(tags) == SortBy(tags, IdentityStr)

arraysEqualLengthOnly(arr1, arr2) == Len(arr1) = Len(arr2)
arraysEqual(arr1, arr2) ==
  IF Len(arr1) # Len(arr2) THEN FALSE
  ELSE \A index \in 1..Len(arr1) : arr1[index] = arr2[index]

\* arr.includes(v)
Includes(arr, v) == \E k \in 1..Len(arr) : arr[k] = v

RECURSIVE FilterMask(_, _)
FilterMask(arr, mask) ==
  IF Len(arr) = 0 THEN <<>>
  ELSE (IF Head(mask) THEN <<Head(arr)>> ELSE <<>>) \o FilterMask(Tail(arr), Tail(mask))

\* arr.filter(Keep)
Filter(arr, Keep(_)) == FilterMask(arr, [k \in 1..Len(arr) |-> Keep(arr[k])])

\* arr.map(F)
Map(arr, F(_)) == [k \in 1..Len(arr) |-> F(arr[k])]

ItemId(item) == item.id
ItemFolders(item) == item.folders
ItemTags(item) == item.tags
\* f.id || f : identifiers are never falsy here
FolderKey(f) == f.id

SeqSet(arr) == {arr[k] : k \in 1..Len(arr)}

\* the change test of refreshData on two identifier sequences
idsChanged(A, B) == ~arraysEqual(SortIds(A), SortIds(B))

\* the selection-changed test of refreshData
selectionChanged(oldItems, newItems) ==
  idsChanged(Map(oldItems, ItemId), Map(newItems, ItemId))

\* the folders-changed test of refreshData
foldersChanged(previousFolders, currentFolders) ==
  idsChanged(Map(previousFolders, FolderKey), Map(currentFolders, FolderKey))

\* the tags-changed test of refreshData
tagsChanged(previousTags, currentTags) ==
  ~arraysEqual(SortTags(previousTags), SortTags(currentTags))

\* the intersection filter of findCommonFoldersAndTags over the per-item arrays
CommonOfSome(all) ==
  Filter(all[1], LAMBDA v : \E k \in 1..Len(all) : Includes(all[k], v))
CommonOf(all) ==
  Filter(all[1], LAMBDA v : \A k \in 1..Len(all) : Includes(all[k], v))

\* commonFolderIds.map(id => ({ id, name: `Folder ${id}` }))
FallbackFoldersNone(commonFolderIds) == <<>>
FallbackFolders(commonFolderIds) ==
  Map(commonFolderIds, LAMBDA id : [id |-> id, name |-> FolderPrefix \o ToDigits(id)])

\* what eagle.folder.getByIds resolves to: the host's folder objects
HostGetByIds(commonFolderIds) ==
  Map(commonFolderIds, LAMBDA id : [id |-> id, name |-> HostFolderName(id)])

\* the two pure halves of findCommonFoldersAndTags: the identifiers that
\* survive the intersection, and the common tags
findCommonFolderIds(items) ==
  IF Len(items) = 0 THEN <<>> ELSE CommonOf(Map(items, ItemFolders))
findCommonTags(allTags) ==
  IF Len(allTags) = 0 THEN <<>> ELSE CommonOf(allTags)

\* ------------------------------------------------------------------- state
VARIABLES
  hostSelection,      \* host: ids of the items the user has selected, in order
  hostItems,          \* host: id -> [folders, tags] of every item
  selectionSettled,   \* host: the user has stopped changing the selection
  clicksLeft,         \* double-clicks the user may still make
  selectedItems,      \* let selectedItems
  commonFolders,      \* let commonFolders
  commonTags,         \* let commonTags
  isRefreshing,       \* let isRefreshing
  cycles,             \* refreshData invocations past the guard, awaiting the host
  swaps,              \* swap handlers awaiting the host
  foldersView,        \* content of #folders-container
  tagsView,           \* content of #tags-container
  itemCount,          \* text of #item-count
  loadingHidden,      \* #loading-indicator carries class hidden
  setup,              \* position of initializeUI
  callbackRegistered, \* the itemChange callback is registered
  intervalPolling,    \* the fallback setInterval is running
  notifyPending,      \* the monitor has a selection change to report
  lastAlert,          \* the last alert() shown
  alertCount,         \* how many alert() dialogs have been shown
  swapCalls,          \* how many times powersdk.utils.op.swap* has been called
  lastOutcome,        \* how the host's last swap operation settled
  last,               \* what the last step did, and for which refreshData caller
  argA, argB,         \* harness: arguments of the change test
  argItems,           \* harness: argument selection of findCommonFoldersAndTags
  argResult,          \* harness: a swap outcome handed to the result dialog
  result              \* harness: the value computed

vars == <<hostSelection, hostItems, selectionSettled, clicksLeft, selectedItems,
          commonFolders, commonTags, isRefreshing, cycles, swaps, foldersView,
          tagsView, itemCount, loadingHidden, setup, callbackRegistered,
          intervalPolling, notifyPending, lastAlert, alertCount, swapCalls,
          lastOutcome, last, argA, argB, argItems, argResult, result>>

hostVars == <<hostSelection, hostItems, selectionSettled>>
storeVars == <<selectedItems, commonFolders, commonTags>>
viewVars == <<foldersView, tagsView, itemCount>>
listenerVars == <<setup, callbackRegistered, intervalPolling>>
clickVars == <<clicksLeft, swapCalls>>
alertVars == <<lastAlert, alertCount, lastOutcome>>
harnessVars == <<argA, argB, argItems, argResult, result>>

Remove(arr, i) == SubSeq(arr, 1, i - 1) \o SubSeq(arr, i + 1, Len(arr))

\* the selections the user makes in the host
Selections == {<<>>, <<1>>, <<1, 2>>, <<2, 1>>}

\* the containers' contents
InitialView == [kind |-> "initial", items |-> <<>>]
NoSelectionView == [kind |-> "noSelection", items |-> <<>>]
NoCommonView == [kind |-> "noCommon", items |-> <<>>]
ProcessingView == [kind |-> "processing", items |-> <<>>]

displayFolders(folders) ==
  IF Len(folders) = 0 THEN NoCommonView ELSE [kind |-> "badges", items |-> folders]

displayTags(tags) ==
  IF Len(tags) = 0 THEN NoCommonView ELSE [kind |-> "badges", items |-> tags]

\* the record kept in last; displayed: the sections the step has rendered
\* with displayFolders / displayTags
Event(op, origin) == [op |-> op, origin |-> origin, displayed |-> {}]

NoAlert == [kind |-> "none", processedCount |-> 0, errorCount |-> 0,
            listed |-> <<>>, truncated |-> FALSE]

\* the record kept in lastOutcome
NoOutcome == [settled |-> "none", success |-> FALSE, processedCount |-> 0,
              errors |-> <<>>]

NewCycle(origin) ==
  [pc |-> "getSelected", origin |-> origin, commonFolderIds |-> <<>>,
   allTags |-> <<>>, previousFolders |-> <<>>, previousTags |-> <<>>]

\* what eagle.item.getSelected resolves to: the host's items, as they are now
HostGetSelected ==
  [k \in 1..Len(hostSelection) |->
     [id |-> hostSelection[k],
      folders |-> hostItems[hostSelection[k]].folders,
      tags |-> hostItems[hostSelection[k]].tags]]

InitialHostItems ==
  [id \in ItemIds |->
     IF id = 1 THEN [folders |-> <<2, 10>>, tags |-> <<TagY>>]
     ELSE [folders |-> <<10>>, tags |-> <<TagY>>]]

HarnessIdle ==
  /\ argA = <<>>
  /\ argB = <<>>
  /\ argItems = <<>>
  /\ argResult = NoOutcome
  /\ result = [op |-> "none", changed |-> FALSE, folders |-> <<>>, tags |-> <<>>,
               alert |-> NoAlert]

PluginInit ==
  /\ selectedItems = <<>>
  /\ commonFolders = <<>>
  /\ commonTags = <<>>
  /\ isRefreshing = FALSE
  /\ cycles = <<>>
  /\ swaps = <<>>
  /\ foldersView = InitialView
  /\ tagsView = InitialView
  /\ itemCount = 0
  /\ loadingHidden = TRUE
  /\ setup = "start"
  /\ callbackRegistered = FALSE
  /\ intervalPolling = FALSE
  /\ notifyPending = FALSE
  /\ lastAlert = NoAlert
  /\ alertCount = 0
  /\ lastOutcome = NoOutcome
  /\ last = Event("init", "none")

Init ==
  /\ hostSelection \in Selections
  /\ hostItems = InitialHostItems
  /\ selectionSettled = FALSE
  /\ clicksLeft = MaxSwapClicks
  /\ swapCalls = 0
  /\ PluginInit
  /\ HarnessIdle

\* ------------------------------------------------------------- refreshData
\* if (isRefreshing) { return; }
GuardNeverSkips(flag) == FALSE
GuardSkips(flag) == flag

\* the call of refreshData up to its first await
refreshData(origin) ==
  IF GuardSkips(isRefreshing)
  THEN /\ UNCHANGED <<isRefreshing, cycles, loadingHidden>>
       /\ last' = Event("dropped", origin)
  ELSE /\ Len(cycles) < MaxCycles
       /\ isRefreshing' = TRUE
       /\ loadingHidden' = FALSE
       /\ cycles' = Append(cycles, NewCycle(origin))
       /\ last' = Event("none", "none")

\* a finally block that leaves the flag set
FinallyKeepsFlag(i) ==
  /\ isRefreshing' = isRefreshing
  /\ loadingHidden' = TRUE
  /\ cycles' = Remove(cycles, i)

\* finally { isRefreshing = false; ... }
Finally(i) ==
  /\ isRefreshing' = FALSE
  /\ loadingHidden' = TRUE
  /\ cycles' = Remove(cycles, i)

\* a tail that re-renders both sections as soon as either set changed
CompleteRendersBoth(i, previousFolders, previousTags, newFolders, newTags, op) ==
  LET either == foldersChanged(previousFolders, newFolders)
                \/ tagsChanged(previousTags, newTags)
  IN /\ commonFolders' = newFolders
     /\ commonTags' = newTags
     /\ foldersView' = IF either THEN displayFolders(newFolders) ELSE foldersView
     /\ tagsView' = IF either THEN displayTags(newTags) ELSE tagsView
     /\ Finally(i)
     /\ last' = [Event(op, cycles[i].origin) EXCEPT
                   !.displayed = IF either THEN {"folders", "tags"} ELSE {}]

\* the tail of a cycle once findCommonFoldersAndTags has its folder objects:
\* store both sets, re-render each section whose set changed, finally
Complete(i, previousFolders, previousTags, newFolders, newTags, op) ==
  LET renderFolders == foldersChanged(previousFolders, newFolders)
      renderTags == tagsChanged(previousTags, newTags)
  IN /\ commonFolders' = newFolders
     /\ commonTags' = newTags
     /\ foldersView' = IF renderFolders THEN displayFolders(newFolders)
                       ELSE foldersView
     /\ tagsView' = IF renderTags THEN displayTags(newTags) ELSE tagsView
     /\ Finally(i)
     /\ last' = [Event(op, cycles[i].origin) EXCEPT
                   !.displayed = (IF renderFolders THEN {"folders"} ELSE {})
                                 \cup (IF renderTags THEN {"tags"} ELSE {})]

\* a catch block that resets the stored selection
FetchFailResetsSelection(i) ==
  /\ cycles[i].pc = "getSelected"
  /\ Finally(i)
  /\ selectedItems' = <<>>
  /\ last' = Event("fetchFailed", cycles[i].origin)
  /\ UNCHANGED <<hostVars, clickVars, commonFolders, commonTags, swaps, viewVars,
                 listenerVars, notifyPending, alertVars, harnessVars>>

\* eagle.item.getSelected() rejects: catch, finally
FetchFail(i) ==
  /\ cycles[i].pc = "getSelected"
  /\ Finally(i)
  /\ last' = Event("fetchFailed", cycles[i].origin)
  /\ UNCHANGED <<hostVars, clickVars, storeVars, swaps, viewVars, listenerVars,
                 notifyPending, alertVars, harnessVars>>

\* eagle.item.getSelected() resolves: refreshData runs to its next await or end
FetchOk(i) ==
  /\ cycles[i].pc = "getSelected"
  /\ LET newSelectedItems == HostGetSelected
         origin == cycles[i].origin
     IN IF ~selectionChanged(selectedItems, newSelectedItems)
        THEN /\ Finally(i)
             /\ last' = Event("unchanged", origin)
             /\ UNCHANGED <<storeVars, viewVars>>
        ELSE /\ selectedItems' = newSelectedItems
             /\ itemCount' = Len(newSelectedItems)
             /\ IF Len(newSelectedItems) = 0
                THEN /\ foldersView' = NoSelectionView
                     /\ tagsView' = NoSelectionView
                     /\ Finally(i)
                     /\ last' = Event("empty", origin)
                     /\ UNCHANGED <<commonFolders, commonTags>>
                ELSE LET commonFolderIds == findCommonFolderIds(newSelectedItems)
                         started == [cycles[i] EXCEPT
                                       !.previousFolders = commonFolders,
                                       !.previousTags = commonTags,
                                       !.allTags = Map(newSelectedItems, ItemTags),
                                       !.commonFolderIds = commonFolderIds]
                     IN IF Len(commonFolderIds) > 0
                        THEN /\ cycles' = [cycles EXCEPT ![i] =
                                             [started EXCEPT !.pc = "getByIds"]]
                             /\ last' = Event("none", "none")
                             /\ UNCHANGED <<commonFolders, commonTags, foldersView,
                                            tagsView, isRefreshing, loadingHidden>>
                        ELSE Complete(i, commonFolders, commonTags, <<>>,
                                      findCommonTags(started.allTags), "computed")
  /\ UNCHANGED <<hostVars, clickVars, swaps, listenerVars, notifyPending,
                 alertVars, harnessVars>>

\* eagle.folder.getByIds resolves
LookupOk(i) ==
  /\ cycles[i].pc = "getByIds"
  /\ Complete(i, cycles[i].previousFolders, cycles[i].previousTags,
              HostGetByIds(cycles[i].commonFolderIds),
              findCommonTags(cycles[i].allTags), "computed")
  /\ UNCHANGED <<hostVars, clickVars, selectedItems, itemCount, swaps,
                 listenerVars, notifyPending, alertVars, harnessVars>>

\* eagle.folder.getByIds rejects: the inner catch synthesizes the objects
LookupFail(i) ==
  /\ cycles[i].pc = "getByIds"
  /\ Complete(i, cycles[i].previousFolders, cycles[i].previousTags,
              FallbackFolders(cycles[i].commonFolderIds),
              findCommonTags(cycles[i].allTags), "fallback")
  /\ UNCHANGED <<hostVars, clickVars, selectedItems, itemCount, swaps,
                 listenerVars, notifyPending, alertVars, harnessVars>>

\* ------------------------------------------------------------ initializeUI
\* await refreshData() of initializeUI
InitialRefresh ==
  /\ setup = "start"
  /\ setup' = "refreshing"
  /\ refreshData("initial")
  /\ UNCHANGED <<hostVars, clickVars, storeVars, swaps, viewVars,
                 callbackRegistered, intervalPolling, notifyPending, alertVars,
                 harnessVars>>

\* setupStateListeners, once the initial refreshData has settled: registration
\* and monitoring succeed, or registerCallback throws, or startItemMonitoring
\* rejects after the callback was registered
setupStateListeners ==
  /\ setup = "refreshing"
  /\ cycles = <<>>
  /\ setup' = "done"
  /\ \E outcome \in {"listening", "registerThrows", "monitoringRejects"} :
       /\ callbackRegistered' = (outcome # "registerThrows")
       /\ intervalPolling' = (outcome # "listening")
       /\ last' = Event("none", "none")
  /\ UNCHANGED <<hostVars, clickVars, storeVars, isRefreshing, cycles, swaps,
                 viewVars, loadingHidden, notifyPending, alertVars, harnessVars>>

\* the itemChange callback fires
Notify ==
  /\ callbackRegistered
  /\ notifyPending
  /\ notifyPending' = FALSE
  /\ refreshData("callback")
  /\ UNCHANGED <<hostVars, clickVars, storeVars, swaps, viewVars, listenerVars,
                 alertVars, harnessVars>>

\* setInterval(() => refreshData(), 5000) fires
Poll ==
  /\ intervalPolling
  /\ refreshData("interval")
  /\ UNCHANGED <<hostVars, clickVars, storeVars, swaps, viewVars, listenerVars,
                 notifyPending, alertVars, harnessVars>>

\* --------------------------------------------------------------- the user
\* the user changes the selection in the host; a registered monitor notices
HostSelect ==
  /\ ~selectionSettled
  /\ \E s \in Selections :
       /\ s # hostSelection
       /\ hostSelection' = s
  /\ notifyPending' = (notifyPending \/ callbackRegistered)
  /\ last' = Event("none", "none")
  /\ UNCHANGED <<hostItems, selectionSettled, clickVars, storeVars, isRefreshing,
                 cycles, swaps, viewVars, loadingHidden, listenerVars, alertVars,
                 harnessVars>>

\* the user leaves the selection as it is from now on (a step of FairSpec only:
\* it changes nothing the plugin can see)
HostSettle ==
  /\ ~selectionSettled
  /\ selectionSettled' = TRUE
  /\ last' = Event("none", "none")
  /\ UNCHANGED <<hostSelection, hostItems, clickVars, storeVars, isRefreshing,
                 cycles, swaps, viewVars, loadingHidden, listenerVars,
                 notifyPending, alertVars, harnessVars>>

\* ---------------------------------------------------------- swap handlers
\* swapFolderToTag(folder) up to its await: dblclick on badge #folder-(k-1)
swapFolderToTag(k) ==
  /\ clicksLeft > 0
  /\ Len(swaps) < MaxSwaps
  /\ foldersView.kind = "badges"
  /\ k \in 1..Len(foldersView.items)
  /\ clicksLeft' = clicksLeft - 1
  /\ tagsView' = ProcessingView
  /\ swapCalls' = swapCalls + 1
  /\ swaps' = Append(swaps, [kind |-> "folderToTag", folder |-> foldersView.items[k],
                             tagName |-> <<>>, items |-> selectedItems])
  /\ last' = Event("none", "none")
  /\ UNCHANGED <<hostVars, storeVars, isRefreshing, cycles, foldersView, itemCount,
                 loadingHidden, listenerVars, notifyPending, alertVars, harnessVars>>

\* swapTagToFolder(tagName) up to its await: dblclick on badge #tag-(k-1)
swapTagToFolder(k) ==
  /\ clicksLeft > 0
  /\ Len(swaps) < MaxSwaps
  /\ tagsView.kind = "badges"
  /\ k \in 1..Len(tagsView.items)
  /\ Len(tagsView.items[k]) > 0
  /\ clicksLeft' = clicksLeft - 1
  /\ foldersView' = ProcessingView
  /\ swapCalls' = swapCalls + 1
  /\ swaps' = Append(swaps, [kind |-> "tagToFolder", folder |-> [id |-> 0, name |-> <<>>],
                             tagName |-> tagsView.items[k], items |-> selectedItems])
  /\ last' = Event("none", "none")
  /\ UNCHANGED <<hostVars, storeVars, isRefreshing, cycles, tagsView, itemCount,
                 loadingHidden, listenerVars, notifyPending, alertVars, harnessVars>>

\* what the host's bulk operation does to one item it processes
HostSwapItem(swap, item) ==
  IF swap.kind = "folderToTag"
  THEN [folders |-> Filter(item.folders, LAMBDA f : f # swap.folder.id),
        tags |-> IF Includes(item.tags, swap.folder.name) THEN item.tags
                 ELSE Append(item.tags, swap.folder.name)]
  ELSE [folders |-> IF Includes(item.folders, HostFolderNamed(swap.tagName))
                    THEN item.folders
                    ELSE Append(item.folders, HostFolderNamed(swap.tagName)),
        tags |-> Filter(item.tags, LAMBDA t : t # swap.tagName)]

\* result.errors.slice(0, 3)
ListedErrors == 3

\* a result dialog that lists every error and never marks a truncation
SwapAlertListsAll(outcome) ==
  IF outcome.success
  THEN [kind |-> "complete", processedCount |-> outcome.processedCount,
        errorCount |-> 0, listed |-> <<>>, truncated |-> FALSE]
  ELSE [kind |-> "errors", processedCount |-> outcome.processedCount,
        errorCount |-> Len(outcome.errors), listed |-> outcome.errors,
        truncated |-> FALSE]

\* the alert of the result dialog
SwapAlert(outcome) ==
  IF outcome.success
  THEN [kind |-> "complete", processedCount |-> outcome.processedCount,
        errorCount |-> 0, listed |-> <<>>, truncated |-> FALSE]
  ELSE [kind |-> "errors", processedCount |-> outcome.processedCount,
        errorCount |-> Len(outcome.errors),
        listed |-> SubSeq(outcome.errors, 1,
                          IF Len(outcome.errors) < ListedErrors
                          THEN Len(outcome.errors) ELSE ListedErrors),
        truncated |-> Len(outcome.errors) > ListedErrors]

\* the alert of the handler's catch
FailedAlert == [kind |-> "failed", processedCount |-> 0, errorCount |-> 0,
                listed |-> <<>>, truncated |-> FALSE]

\* a handler whose catch also fires after the result dialog, alerting twice
SwapResolveAlertsTwice(j, done) ==
  /\ j \in 1..Len(swaps)
  /\ LET swap == swaps[j]
         failed == Filter([k \in 1..Len(swap.items) |-> k], LAMBDA k : k \notin done)
     IN /\ hostItems' = [id \in ItemIds |->
                           IF \E k \in done : swap.items[k].id = id
                           THEN HostSwapItem(swap, hostItems[id])
                           ELSE hostItems[id]]
        /\ lastOutcome' = [settled |-> "resolved", success |-> Len(failed) = 0,
                           processedCount |-> Cardinality(done),
                           errors |-> [k \in 1..Len(failed) |->
                                         swap.items[failed[k]].id]]
  /\ lastAlert' = FailedAlert
  /\ alertCount' = alertCount + 2
  /\ swaps' = Remove(swaps, j)
  /\ refreshData("swap")
  /\ UNCHANGED <<hostSelection, selectionSettled, clickVars, storeVars, viewVars,
                 listenerVars, notifyPending, harnessVars>>

\* the host's swap operation resolves, having processed the items at the
\* positions in done and failed on the others: alert, then refreshData
SwapResolve(j, done) ==
  /\ j \in 1..Len(swaps)
  /\ LET swap == swaps[j]
         failed == Filter([k \in 1..Len(swap.items) |-> k], LAMBDA k : k \notin done)
         outcome == [settled |-> "resolved", success |-> Len(failed) = 0,
                     processedCount |-> Cardinality(done),
                     errors |-> [k \in 1..Len(failed) |-> swap.items[failed[k]].id]]
     IN /\ hostItems' = [id \in ItemIds |->
                           IF \E k \in done : swap.items[k].id = id
                           THEN HostSwapItem(swap, hostItems[id])
                           ELSE hostItems[id]]
        /\ lastOutcome' = outcome
        /\ lastAlert' = SwapAlert(outcome)
  /\ alertCount' = alertCount + 1
  /\ swaps' = Remove(swaps, j)
  /\ refreshData("swap")
  /\ UNCHANGED <<hostSelection, selectionSettled, clickVars, storeVars, viewVars,
                 listenerVars, notifyPending, harnessVars>>

\* a handler that answers a rejection by calling the host again
SwapRejectRetries(j) ==
  /\ j \in 1..Len(swaps)
  /\ swapCalls' = swapCalls + 1
  /\ last' = Event("none", "none")
  /\ UNCHANGED <<hostVars, clicksLeft, storeVars, isRefreshing, cycles, swaps,
                 viewVars, loadingHidden, listenerVars, notifyPending, alertVars,
                 harnessVars>>

\* the host's swap operation rejects: the handler's catch alerts
SwapReject(j) ==
  /\ j \in 1..Len(swaps)
  /\ swaps' = Remove(swaps, j)
  /\ lastOutcome' = [NoOutcome EXCEPT !.settled = "rejected"]
  /\ lastAlert' = FailedAlert
  /\ alertCount' = alertCount + 1
  /\ last' = Event("swapRejected", "none")
  /\ UNCHANGED <<hostVars, clickVars, storeVars, isRefreshing, cycles, viewVars,
                 loadingHidden, listenerVars, notifyPending, harnessVars>>

\* ------------------------------------------------------------ specification
FetchSettles == \E i \in 1..Len(cycles) : FetchOk(i) \/ FetchFail(i)
FetchSucceeds == \E i \in 1..Len(cycles) : FetchOk(i)
LookupSettles == \E i \in 1..Len(cycles) : LookupOk(i) \/ LookupFail(i)
SwapSettles ==
  \E j \in 1..Len(swaps) :
    \/ \E done \in SUBSET (1..Len(swaps[j].items)) : SwapResolve(j, done)
    \/ SwapReject(j)
Dblclick ==
  \/ \E k \in 1..Len(foldersView.items) : swapFolderToTag(k)
  \/ \E k \in 1..Len(tagsView.items) : swapTagToFolder(k)

Next ==
  \/ InitialRefresh
  \/ setupStateListeners
  \/ Notify
  \/ Poll
  \/ HostSelect
  \/ FetchSettles
  \/ LookupSettles
  \/ Dblclick
  \/ SwapSettles

Spec == Init /\ [][Next]_vars

\* The behaviours in which the user never double-clicks a badge and at some
\* point may stop changing the selection, under the
\* scheduling the runtime gives: the awaited initializeUI goes on, the interval
\* timer and the monitor's callback keep firing, the host settles every promise
\* and its selection fetch does not fail forever.
RefreshNext ==
  \/ InitialRefresh
  \/ setupStateListeners
  \/ Notify
  \/ Poll
  \/ HostSelect
  \/ HostSettle
  \/ FetchSettles
  \/ LookupSettles

FairSpec ==
  /\ Init
  /\ [][RefreshNext]_vars
  /\ WF_vars(InitialRefresh)
  /\ WF_vars(setupStateListeners)
  /\ WF_vars(Notify)
  /\ WF_vars(Poll)
  /\ SF_vars(FetchSucceeds)
  /\ WF_vars(LookupSettles)

\* ------------------------------------------------- pure-function harness
\* The change test and the intersection of findCommonFoldersAndTags applied to
\* arbitrary bounded arguments, the plugin itself left in its initial state.
ArgIds == {1, 2, 10}
SeqsUpTo(S, n) == UNION {[1..m -> S] : m \in 0..n}

\* selections whose items differ in their folders, and selections whose items
\* differ in their tags (the two intersections are computed independently)
ArgSelections ==
  UNION {[1..m -> [id : {1}, folders : SeqsUpTo(FolderIds, MaxArgLen),
                   tags : {<<TagY>>}]]
         \cup [1..m -> [id : {1}, folders : {<<10>>},
                        tags : SeqsUpTo(TagLabels, MaxArgLen)]] : m \in 0..MaxArgItems}

\* the outcomes a swap operation of the host may resolve to
ErrorIds == {1, 2}
ArgOutcomes ==
  [settled : {"resolved"}, success : BOOLEAN, processedCount : 0..MaxProcessed,
   errors : SeqsUpTo(ErrorIds, MaxErrors)]

NoResult(op) == [op |-> op, changed |-> FALSE, folders |-> <<>>, tags |-> <<>>,
                 alert |-> NoAlert]

HarnessInit ==
  /\ hostSelection = <<>>
  /\ hostItems = InitialHostItems
  /\ selectionSettled = FALSE
  /\ clicksLeft = 0
  /\ swapCalls = 0
  /\ PluginInit
  /\ \/ /\ argA \in SeqsUpTo(ArgIds, MaxArgLen)
        /\ argB \in SeqsUpTo(ArgIds, MaxArgLen)
        /\ argItems = <<>>
        /\ argResult = NoOutcome
        /\ result = NoResult("changeTest")
     \/ /\ argA = <<>>
        /\ argB = <<>>
        /\ argItems \in ArgSelections
        /\ argResult = NoOutcome
        /\ result = NoResult("findCommon")
     \/ /\ argA = <<>>
        /\ argB = <<>>
        /\ argItems = <<>>
        /\ argResult \in ArgOutcomes
        /\ result = NoResult("swapAlert")

\* the change test on two identifier sequences, and on the label sequences that
\* are their string forms
ApplyChangeTest ==
  /\ result.op = "changeTest"
  /\ result' = [op |-> "changeTestDone",
                changed |-> idsChanged(argA, argB),
                folders |-> <<>>,
                tags |-> <<tagsChanged(Map(argA, ToDigits), Map(argB, ToDigits))>>,
                alert |-> NoAlert]
  /\ UNCHANGED <<hostVars, clickVars, storeVars, isRefreshing, cycles, swaps,
                 viewVars, loadingHidden, listenerVars, notifyPending, alertVars,
                 last, argA, argB, argItems, argResult>>

\* findCommonFoldersAndTags on selectedItems = argItems; the folder lookup,
\* when there is one, resolves (lookupOk) or rejects
ApplyFindCommon(lookupOk) ==
  /\ result.op = "findCommon"
  /\ LET commonFolderIds == findCommonFolderIds(argItems)
     IN result' = [op |-> IF lookupOk THEN "findCommonDone" ELSE "findCommonFallback",
                   changed |-> FALSE,
                   folders |-> IF Len(commonFolderIds) = 0 THEN <<>>
                               ELSE IF lookupOk THEN HostGetByIds(commonFolderIds)
                               ELSE FallbackFolders(commonFolderIds),
                   tags |-> findCommonTags(Map(argItems, ItemTags)),
                   alert |-> NoAlert]
  /\ UNCHANGED <<hostVars, clickVars, storeVars, isRefreshing, cycles, swaps,
                 viewVars, loadingHidden, listenerVars, notifyPending, alertVars,
                 last, argA, argB, argItems, argResult>>

\* the result dialog of a swap handler whose host call resolved to argResult
ApplySwapAlert ==
  /\ result.op = "swapAlert"
  /\ result' = [NoResult("swapAlertDone") EXCEPT !.alert = SwapAlert(argResult)]
  /\ UNCHANGED <<hostVars, clickVars, storeVars, isRefreshing, cycles, swaps,
                 viewVars, loadingHidden, listenerVars, notifyPending, alertVars,
                 last, argA, argB, argItems, argResult>>

HarnessNext ==
  \/ ApplyChangeTest
  \/ ApplySwapAlert
  \/ \E lookupOk \in BOOLEAN : ApplyFindCommon(lookupOk)

HarnessSpec == HarnessInit /\ [][HarnessNext]_vars

\* ------------------------------------------------------------- properties
\* the ids common to the folder collections of all items (none for no items)
FolderIntersection(items) ==
  IF Len(items) = 0 THEN {}
  ELSE {f \in UNION {SeqSet(items[k].folders) : k \in 1..Len(items)} :
          \A k \in 1..Len(items) : f \in SeqSet(items[k].folders)}

\* the labels common to the tag collections of all items (none for no items)
TagIntersection(items) ==
  IF Len(items) = 0 THEN {}
  ELSE {t \in UNION {SeqSet(items[k].tags) : k \in 1..Len(items)} :
          \A k \in 1..Len(items) : t \in SeqSet(items[k].tags)}

FolderIdSet(folders) == {folders[k].id : k \in 1..Len(folders)}

\* number of occurrences of v in arr
Count(arr, v) == Cardinality({k \in 1..Len(arr) : arr[k] = v})

\* C1: for every non-empty selection findCommonFoldersAndTags leaves in
\* commonFolders exactly the folders whose id is in every item's folders, and in
\* commonTags exactly the tags that are in every item's tags.
C1_CommonSetsAreIntersections ==
  (result.op \in {"findCommonDone", "findCommonFallback"} /\ Len(argItems) > 0) =>
    /\ FolderIdSet(result.folders) = FolderIntersection(argItems)
    /\ SeqSet(result.tags) = TagIntersection(argItems)

C1_Witness ==
  /\ result.op = "findCommonDone"
  /\ Len(argItems) = 3
  /\ SeqSet(argItems[1].folders) # SeqSet(argItems[2].folders)
  /\ SeqSet(argItems[2].folders) # SeqSet(argItems[3].folders)
  /\ FolderIdSet(result.folders) = {10}
  /\ SeqSet(result.tags) = {TagY}

\* C2: whenever no refresh cycle is in flight, the ids of commonFolders are the
\* intersection of the folders of the items of selectedItems and commonTags is
\* the intersection of their tags, both empty when selectedItems is empty.
C2_StoredCommonSetsMatchSelection ==
  ~isRefreshing =>
    /\ FolderIdSet(commonFolders) = FolderIntersection(selectedItems)
    /\ SeqSet(commonTags) = TagIntersection(selectedItems)

\* C3: a refresh cycle that fetches an empty selection after a non-empty one
\* ends with commonFolders and commonTags empty.
C3_EmptySelectionClearsCommonSets ==
  last.op = "empty" => (commonFolders = <<>> /\ commonTags = <<>>)

\* C4: at most one refresh cycle is in flight, and a refreshData call made while
\* isRefreshing is true is dropped: it starts no fetch, leaves selectedItems,
\* commonFolders, commonTags and the display alone and leaves nothing pending.
C4_GuardDropsOverlappingRefresh ==
  [][/\ Len(cycles') <= 1
     /\ last'.op = "dropped" =>
          /\ isRefreshing
          /\ UNCHANGED <<storeVars, viewVars, isRefreshing, cycles, loadingHidden>>
     /\ (isRefreshing /\ notifyPending /\ ~notifyPending') => last'.op = "dropped"
     /\ (isRefreshing /\ Len(swaps') < Len(swaps) /\ lastAlert'.kind # "failed")
          => last'.op = "dropped"]_vars

C4_Witness ==
  /\ last.op = "dropped"
  /\ last.origin = "callback"
  /\ Len(cycles) = 1
  /\ cycles[1].pc = "getByIds"

\* the stored selection and common sets are those of the host's selection now
Synced ==
  /\ ~isRefreshing
  /\ SeqSet(Map(selectedItems, ItemId)) = SeqSet(hostSelection)
  /\ FolderIdSet(commonFolders) = FolderIntersection(HostGetSelected)
  /\ SeqSet(commonTags) = TagIntersection(HostGetSelected)

\* C5: with the interval poll running, once the user has stopped changing the
\* selection, a dropped refreshData call is eventually followed by a state in
\* which the stored selection and common sets are those of the host's selection.
C5_DroppedNotificationIsRecovered ==
  (intervalPolling /\ selectionSettled /\ last.op = "dropped") ~> Synced

\* C6: the refresh cycle a swap handler starts after the host's outcome leaves
\* the stored common sets equal to those of the items as they are after the swap.
C6_SwapRefreshRecomputes ==
  (last.origin = "swap" /\ last.op \in {"unchanged", "empty"}) =>
    /\ FolderIdSet(commonFolders) = FolderIntersection(HostGetSelected)
    /\ SeqSet(commonTags) = TagIntersection(HostGetSelected)

\* C7: when getSelected fails the cycle ends with selectedItems, commonFolders,
\* commonTags and the display as they were, the guard released, and nothing
\* reported to the caller (no alert, no swap handler affected).
C7_FetchFailureLeavesStateUnchanged ==
  [][(last'.op = "fetchFailed" /\ cycles' # cycles) =>
       /\ UNCHANGED <<storeVars, viewVars, swaps, lastAlert>>
       /\ ~isRefreshing'
       /\ Len(cycles') = Len(cycles) - 1]_vars

C7_Witness ==
  /\ last.op = "fetchFailed"
  /\ Len(selectedItems) > 0
  /\ Len(commonFolders) > 0
  /\ Map(selectedItems, ItemId) # hostSelection

\* C8: when the folder lookup fails, commonFolders becomes one object
\* {id, name: "Folder " + id} per common folder id, in order, commonTags becomes
\* the intersection of the items' tags, no alert is shown and the cycle ends.
C8_LookupFailureSynthesizesFolders ==
  [][(last'.op = "fallback" /\ cycles' # cycles) =>
       /\ Len(commonFolders') > 0
       /\ FolderIdSet(commonFolders') = FolderIntersection(selectedItems)
       /\ \A k \in 1..Len(commonFolders') :
            /\ commonFolders'[k].id = cycles[1].commonFolderIds[k]
            /\ commonFolders'[k].name = FolderPrefix \o ToDigits(commonFolders'[k].id)
       /\ Len(commonFolders') = Cardinality(FolderIdSet(commonFolders'))
       /\ SeqSet(commonTags') = TagIntersection(selectedItems)
       /\ ~isRefreshing'
       /\ cycles' = <<>>
       /\ UNCHANGED <<selectedItems, lastAlert>>]_vars

C8_Witness ==
  /\ last.op = "fallback"
  /\ Len(commonFolders) = 2
  /\ commonFolders[2].name = FolderPrefix \o <<49, 48>>
  /\ Len(commonTags) > 0

\* C9 as stated: the change test reports a change exactly when the sets of
\* elements of the two sequences differ.
C9_ChangeTestComparesSets ==
  result.op = "changeTestDone" =>
    /\ result.changed <=> (SeqSet(argA) # SeqSet(argB))
    /\ result.tags[1] <=> (SeqSet(argA) # SeqSet(argB))

\* C9 amended: the change test reports a change exactly when some element occurs
\* a different number of times in the two sequences, whatever their order.
C9_ChangeTestComparesMultisets ==
  result.op = "changeTestDone" =>
    /\ result.changed <=> (\E v \in ArgIds : Count(argA, v) # Count(argB, v))
    /\ result.tags[1] <=> (\E v \in ArgIds : Count(argA, v) # Count(argB, v))

C9_Witness ==
  /\ result.op = "changeTestDone"
  /\ argA = <<10, 2>>
  /\ argB = <<2, 10>>
  /\ ~result.changed

SwapRefreshCalled ==
  \/ /\ Len(cycles') > Len(cycles)
     /\ cycles'[Len(cycles')].origin = "swap"
  \/ /\ last'.op = "dropped"
     /\ last'.origin = "swap"

\* C11: each double-click calls the host's swap operation exactly once (the call
\* count grows by one with each double-click and in no other step, so there is
\* no retry and no rollback call), and the handler calls refreshData only in
\* the step in which the outcome of its host call is received
C11_OneHostCallThenRefresh ==
  [][/\ swapCalls' - swapCalls = clicksLeft - clicksLeft'
     /\ swapCalls' - swapCalls = (IF Len(swaps') > Len(swaps) THEN 1 ELSE 0)
     /\ SwapRefreshCalled
          => /\ Len(swaps') = Len(swaps) - 1
             /\ lastOutcome'.settled = "resolved"
             /\ swapCalls' = swapCalls]_vars

C11_Witness ==
  /\ swapCalls = 1
  /\ swaps = <<>>
  /\ lastOutcome.settled = "resolved"
  /\ Len(cycles) = 1
  /\ cycles[1].origin = "swap"

\* C12: a refresh cycle that ends, on whichever path (unchanged selection,
\* empty selection, completion, failed fetch), leaves isRefreshing false, the
\* flag is never set without a cycle in flight, and so a refreshData call is
\* dropped only while a cycle is in flight: a notification delivered when none
\* is in flight, also right after a failure, starts a cycle
C12_GuardIsAlwaysReleased ==
  [][/\ Len(cycles') < Len(cycles) => ~isRefreshing'
     /\ cycles' = <<>> => ~isRefreshing'
     /\ last'.op = "dropped" => (cycles # <<>> /\ cycles' = cycles)
     /\ (cycles = <<>> /\ notifyPending /\ ~notifyPending')
          => (Len(cycles') = 1 /\ isRefreshing')]_vars

C12_Witness ==
  /\ last.op = "fetchFailed"
  /\ last.origin \in {"callback", "interval"}
  /\ ~isRefreshing
  /\ cycles = <<>>
  /\ notifyPending
  /\ callbackRegistered

\* C13: the folder (or tag) a swap handler hands to the host's swap operation
\* is common to every item of the selection it hands over with it
C13_SwapArgumentIsCommon ==
  \A j \in 1..Len(swaps) :
    IF swaps[j].kind = "folderToTag"
    THEN swaps[j].folder.id \in FolderIntersection(swaps[j].items)
    ELSE swaps[j].tagName \in TagIntersection(swaps[j].items)

\* a section shows the badges of common and nothing else (with no common
\* element: one of the two texts that say so)
ShowsExactly(view, common, rendered) ==
  IF Len(common) = 0 THEN view.kind \in {"initial", "noCommon"}
  ELSE view = rendered

\* C14: whenever no refresh cycle and no swap is in flight and the stored
\* selection is not empty, the folders section shows exactly the badges of
\* commonFolders and the tags section exactly those of commonTags (neither
\* the empty-selection text, nor "Processing swap...", nor earlier badges)
C14_IdleDisplayMatchesStore ==
  (cycles = <<>> /\ ~isRefreshing /\ swaps = <<>> /\ Len(selectedItems) > 0)
    => /\ ShowsExactly(foldersView, commonFolders, displayFolders(commonFolders))
       /\ ShowsExactly(tagsView, commonTags, displayTags(commonTags))

\* C15: a refresh cycle that recomputes the common sets (changed, non-empty
\* selection) calls displayFolders exactly when the set of common folder ids
\* differs from the one stored before, and displayTags exactly when the set of
\* common tags differs, each independently of the other; a section that is not
\* re-rendered keeps its content
C15_RendersExactlyWhatChanged ==
  [][(Len(cycles') < Len(cycles) /\ last'.op \in {"computed", "fallback"})
       => /\ Len(selectedItems') > 0
          /\ ("folders" \in last'.displayed)
               <=> (FolderIdSet(commonFolders') # FolderIdSet(commonFolders))
          /\ ("tags" \in last'.displayed)
               <=> (SeqSet(commonTags') # SeqSet(commonTags))
          /\ foldersView' = IF "folders" \in last'.displayed
                            THEN displayFolders(commonFolders') ELSE foldersView
          /\ tagsView' = IF "tags" \in last'.displayed
                         THEN displayTags(commonTags') ELSE tagsView]_vars

C15_Witness ==
  /\ last.op = "computed"
  /\ last.displayed = {"tags"}
  /\ foldersView.kind = "badges"
  /\ Len(selectedItems) = 2

\* C16: every swap handler whose host call settles shows exactly one message
\* (and no message is shown in any other step): the success message when the
\* outcome has success = true, the partial-failure message when it has
\* success = false, the failure message when the call rejects; a rejection
\* calls no refreshData and changes none of selectedItems, commonFolders,
\* commonTags
C16_OneMessagePerSettledSwap ==
  [][/\ alertCount' - alertCount = (IF Len(swaps') < Len(swaps) THEN 1 ELSE 0)
     /\ Len(swaps') < Len(swaps)
          => /\ lastOutcome'.settled \in {"resolved", "rejected"}
             /\ lastAlert'.kind =
                  (IF lastOutcome'.settled = "rejected" THEN "failed"
                   ELSE IF lastOutcome'.success THEN "complete" ELSE "errors")
             /\ lastOutcome'.settled = "rejected"
                  => /\ ~SwapRefreshCalled
                     /\ UNCHANGED <<storeVars, cycles, isRefreshing>>]_vars

C16_Witness ==
  /\ alertCount = 1
  /\ swaps = <<>>
  /\ lastOutcome.settled = "resolved"
  /\ ~lastOutcome.success
  /\ lastAlert.kind = "errors"
  /\ lastAlert.processedCount = 1

\* C17: for a swap outcome with success = false and n errors the message
\* reports processedCount and n, lists exactly the first min(n, 3) error
\* messages in their order, and ends with the truncation mark exactly when n > 3
C17_ErrorsMessageListsFirstThree ==
  (result.op = "swapAlertDone" /\ ~argResult.success)
    => LET n == Len(argResult.errors)
           shown == result.alert
       IN /\ shown.kind = "errors"
          /\ shown.processedCount = argResult.processedCount
          /\ shown.errorCount = n
          /\ Len(shown.listed) = (IF n < 3 THEN n ELSE 3)
          /\ \A k \in 1..Len(shown.listed) : shown.listed[k] = argResult.errors[k]
          /\ shown.truncated <=> (n > 3)

C17_Witness ==
  /\ result.op = "swapAlertDone"
  /\ ~argResult.success
  /\ argResult.errors = <<2, 1, 1, 2>>
  /\ result.alert.listed = <<2, 1, 1>>
  /\ result.alert.truncated

====
